---- MODULE Spec2Model ----
(***************************************************************************)
(* A model of myenv.py: profile loading and selection, the symlink         *)
(* reconciliation of `myenv install` over a small POSIX-like filesystem,   *)
(* and the environment export of `myenv profile`.                          *)
(*                                                                         *)
(* Paths.  A path string is a record [root, comps]: root is "abs" (the     *)
(* string starts with "/"), "rel", or "tilde" (it starts with "~/"), and   *)
(* comps is the sequence of its components, "." and ".." included.  The    *)
(* strings are never normalised by the program, and neither are the        *)
(* records.  Text(p) spells a path out as its sequence of characters, which*)
(* is what str.startswith compares.  $HOME is assumed to be canonical      *)
(* (no symlink on the way to it), so realpath(get_home()) is Home.         *)
(*                                                                         *)
(* Filesystem.  fs maps the canonical location of every existing object    *)
(* (a sequence of names from the root) to its node: a file, a directory,   *)
(* a fifo, or a symlink with its text.  The root <<>> is always a          *)
(* directory.                                                              *)
(***************************************************************************)
EXTENDS Integers, Sequences, FiniteSets, TLC

\* ------------------------------------------------------------------ bounds

\* Consecutive `myenv install` runs over the same home directory.
MaxRuns == 2

\* Symlinks followed while resolving one path (the kernel's ELOOP limit).
LinkFuel == 4

\* --------------------------------------------------------------- sequences

IsPrefix(p, q) == Len(p) <= Len(q) /\ SubSeq(q, 1, Len(p)) = p

Front(s) == SubSeq(s, 1, Len(s) - 1)

Last(s) == s[Len(s)]

\* ------------------------------------------------------------ path strings

Abs(comps) == [root |-> "abs", comps |-> comps]

Rel(comps) == [root |-> "rel", comps |-> comps]

Tilde(comps) == [root |-> "tilde", comps |-> comps]

\* realpath(get_home()): the user's home directory.
Home == <<"h">>

HomeP == Abs(Home)

\* profile_dir = expand('~/.myenv'); "m" stands for ".myenv".
ProfileDir == Abs(<<"h", "m">>)

\* The characters of one path component.  Every name of the model is one
\* character long but "h2" (a sibling of the home directory whose name starts
\* with the home directory's name) and "..".
Spell(c) ==
  CASE c = "h2" -> <<"h", "2">>
    [] c = ".." -> <<".", ".">>
    [] OTHER -> <<c>>

RECURSIVE SpellAll(_)
SpellAll(comps) ==
  IF comps = <<>> THEN <<>>
  ELSE IF Len(comps) = 1 THEN Spell(comps[1])
  ELSE Spell(comps[1]) \o <<"/">> \o SpellAll(Tail(comps))

\* The path as the string the program holds.
Text(p) ==
  CASE p.root = "abs" -> <<"/">> \o SpellAll(p.comps)
    [] p.root = "tilde" -> <<"~", "/">> \o SpellAll(p.comps)
    [] OTHER -> SpellAll(p.comps)

\* str.startswith
StartsWith(s, prefix) == IsPrefix(prefix, s)

\* os.path.isabs
IsAbs(p) == p.root = "abs"

\* os.path.join(a, b) for an absolute a
Join(a, b) ==
  IF IsAbs(b) THEN b ELSE [root |-> a.root, comps |-> a.comps \o b.comps]

\* expand(s) = expanduser(expandvars(s)): "~/x" becomes $HOME/x.
expand(p) == IF p.root = "tilde" THEN Abs(Home \o p.comps) ELSE p

\* -------------------------------------------------------------- filesystem

NoText == Rel(<<>>)

File == [t |-> "file", to |-> NoText]

Dir == [t |-> "dir", to |-> NoText]

Fifo == [t |-> "fifo", to |-> NoText]

Link(text) == [t |-> "link", to |-> text]

Node(f, loc) == IF loc = <<>> THEN Dir ELSE f[loc]

Present(f, loc) == loc = <<>> \/ loc \in DOMAIN f

Parent(loc) == IF loc = <<>> THEN <<>> ELSE Front(loc)

\* The kernel's path walk from directory cur: [st, loc] where st is "ok" (loc
\* exists), "absent" (every component but the last exists, loc is where the
\* last would be) or "fail" (ENOENT, ENOTDIR or ELOOP on the way).
RECURSIVE Walk(_, _, _, _, _)
Walk(f, cur, comps, followLast, fuel) ==
  IF comps = <<>> THEN [st |-> "ok", loc |-> cur]
  ELSE IF Node(f, cur).t # "dir" THEN [st |-> "fail", loc |-> cur]
  ELSE LET c == Head(comps)
           rest == Tail(comps)
           nxt == cur \o <<c>>
       IN  IF c = "." THEN Walk(f, cur, rest, followLast, fuel)
           ELSE IF c = ".." THEN Walk(f, Parent(cur), rest, followLast, fuel)
           ELSE IF ~Present(f, nxt)
             THEN IF rest = <<>> THEN [st |-> "absent", loc |-> nxt]
                  ELSE [st |-> "fail", loc |-> nxt]
           ELSE IF f[nxt].t = "link" /\ (rest # <<>> \/ followLast)
             THEN IF fuel = 0 THEN [st |-> "fail", loc |-> nxt]
                  ELSE Walk(f, IF IsAbs(f[nxt].to) THEN <<>> ELSE cur,
                            f[nxt].to.comps \o rest, followLast, fuel - 1)
           ELSE Walk(f, nxt, rest, followLast, fuel)

\* stat(2) and lstat(2) of an absolute path string
Stat(f, p) == Walk(f, <<>>, p.comps, TRUE, LinkFuel)

LStat(f, p) == Walk(f, <<>>, p.comps, FALSE, LinkFuel)

\* os.path.exists, lexists, islink, isdir, isfile
exists(f, p) == Stat(f, p).st = "ok"

lexists(f, p) == LStat(f, p).st = "ok"

islink(f, p) == LStat(f, p).st = "ok" /\ Node(f, LStat(f, p).loc).t = "link"

isdir(f, p) == Stat(f, p).st = "ok" /\ Node(f, Stat(f, p).loc).t = "dir"

isfile(f, p) == Stat(f, p).st = "ok" /\ Node(f, Stat(f, p).loc).t = "file"

\* os.path.realpath (not strict): symlinks are resolved, ".." is taken of the
\* resolved path, and a component that does not exist is kept as it is.
RECURSIVE RealWalk(_, _, _, _)
RealWalk(f, cur, comps, fuel) ==
  IF comps = <<>> THEN cur
  ELSE LET c == Head(comps)
           rest == Tail(comps)
           nxt == cur \o <<c>>
       IN  IF c = "." THEN RealWalk(f, cur, rest, fuel)
           ELSE IF c = ".." THEN RealWalk(f, Parent(cur), rest, fuel)
           ELSE IF Present(f, nxt) /\ f[nxt].t = "link" /\ fuel > 0
             THEN RealWalk(f, IF IsAbs(f[nxt].to) THEN <<>> ELSE cur,
                           f[nxt].to.comps \o rest, fuel - 1)
           ELSE RealWalk(f, nxt, rest, fuel)

realpath(f, p) == RealWalk(f, <<>>, p.comps, LinkFuel)

\* os.remove of an existing non-directory (the path itself, never its target)
remove(f, p) ==
  LET r == LStat(f, p)
  IN  IF r.st = "ok" /\ r.loc # <<>> /\ f[r.loc].t # "dir"
      THEN [q \in (DOMAIN f) \ {r.loc} |-> f[q]]
      ELSE f

\* shutil.rmtree of an existing real directory: the directory and all below it
rmtree(f, p) ==
  LET r == LStat(f, p)
  IN  IF r.st = "ok" /\ r.loc # <<>> /\ f[r.loc].t = "dir"
      THEN [q \in {x \in DOMAIN f : ~IsPrefix(r.loc, x)} |-> f[q]]
      ELSE f

\* os.symlink(text, p) succeeds iff p does not exist and its parent is a
\* directory
CanSymlink(f, p) == LStat(f, p).st = "absent"

symlink(f, text, p) ==
  LET r == LStat(f, p)
  IN  IF r.st = "absent"
      THEN [q \in (DOMAIN f) \cup {r.loc} |-> IF q = r.loc THEN Link(text) ELSE f[q]]
      ELSE f

\* os.listdir(home)
listdir(f, dir) == {q \in DOMAIN f : Len(q) = Len(dir) + 1 /\ IsPrefix(dir, q)}

\* ------------------------------------------------------- profiles (install)

VARIABLES
  fs,            \* the filesystem
  active,        \* `profiles` after line 777: the names of the active profiles, in order
  symlinks,      \* profile name -> its profile.json "symlinks", as ordered (key, value) pairs
  copies,        \* profile name -> its profile.json "copies", as ordered (key, value) pairs
  pc,            \* where the install operation stands
  run,           \* which consecutive run of `myenv install` this is
  pi,            \* SymlinksPlugin.install: index of the profile being installed
  new_symlinks,  \* installProfile: the dict get_symlinks returned, in insertion order
  ei,            \* installProfile: index of the entry the current loop is at
  err,           \* the exception that ended the run, "none" while there is none
  fsStart,       \* the filesystem when the current run started
  history        \* the filesystem and outcome at the end of each earlier run

installVars ==
  <<fs, symlinks, copies, pc, run, pi, new_symlinks, ei, err, fsStart, history>>

VARIABLES
  files,         \* directory name under profile_dir -> its profile.json document
  files0,        \* the documents when the program started
  profiles,      \* the dict `profiles`: the loaded RemoteProfiles, in insertion order
  spc,           \* where loading, selection and the shell profile loop stand
  serr,          \* the exception that ended them, "none" while there is none
  li,            \* the discovery loop's index into the directory listing
  si,            \* select_profiles: index of the profile the loop is at
  ret,           \* select_profiles: the list being built
  shell,         \* shell profile file name -> "absent", "user" or "myenv"
  hi,            \* the install operation's index into its list of shell profile files
  origProfile    \* the install operation's RemoteProfile of 'original', once made

selectVars ==
  <<files, files0, profiles, spc, serr, li, si, ret, shell, hi, origProfile>>

VARIABLES
  env,           \* profile name -> its profile.json "env", as ordered (name, value) pairs
  environ,       \* os.environ: variable name -> [set, val]
  epc,           \* where the profile operation stands
  wi,            \* generateDotProfile: index of the (profile, variable) pair the loops are at
  envret,        \* generateDotProfile: the dict `ret`, in insertion order
  out            \* the lines the profile operation printed

envVars == <<env, environ, epc, wi, envret, out>>

vars == <<active, installVars, selectVars, envVars>>

ProfileNames == <<"A", "B">>

\* RemoteProfile.path = join(profile_dir, f)
ProfilePath(name) == Join(ProfileDir, Rel(<<name>>))

\* dict[k] = v on a dict kept as a sequence of <<key, value>> in insertion order
DictPut(d, k, v) ==
  IF \E i \in 1..Len(d) : d[i][1] = k
  THEN [i \in 1..Len(d) |-> IF d[i][1] = k THEN <<k, v>> ELSE d[i]]
  ELSE Append(d, <<k, v>>)

DictKeys(d) == {d[i][1] : i \in 1..Len(d)}

DictGet(d, k) == (CHOOSE i \in 1..Len(d) : d[i][1] = k)

\* get_symlinks, lines 403-405: the target and source strings of one entry
TargetOf(k) ==
  LET kk == expand(k) IN IF ~IsAbs(kk) THEN Join(HomeP, kk) ELSE kk

SourceOf(name, v) == Join(ProfilePath(name), expand(v))

\* get_symlinks, lines 413-421: a relative kk is taken as it is, an absolute
\* one must start with the home directory's string.
InsideHome(kk) == ~IsAbs(kk) \/ StartsWith(Text(kk), Text(HomeP))

\* get_symlinks, lines 407-421: the exception one entry raises, if any
EntryError(f, name, k, v) ==
  IF ~exists(f, SourceOf(name, v)) THEN "nosource"
  ELSE IF realpath(f, TargetOf(k)) = Home THEN "ishome"
  ELSE IF ~InsideHome(TargetOf(k)) THEN "outside"
  ELSE "none"

RECURSIVE get_symlinks_from(_, _, _, _)
get_symlinks_from(f, name, entries, result) ==
  IF entries = <<>> THEN [err |-> "none", dict |-> result]
  ELSE LET k == Head(entries)[1]
           v == Head(entries)[2]
           e == EntryError(f, name, k, v)
       IN  IF e # "none" THEN [err |-> e, dict |-> result]
           ELSE get_symlinks_from(f, name, Tail(entries),
                                  DictPut(result, TargetOf(k), SourceOf(name, v)))

get_symlinks(f, name) == get_symlinks_from(f, name, symlinks[name], <<>>)

\* find_symlinks(directory, targetdir): the names in directory that are
\* symlinks whose text starts with targetdir's string
find_symlinks(f, directory, targetdir) ==
  {Last(q) : q \in {x \in listdir(f, directory.comps) :
                      /\ f[x].t = "link"
                      /\ StartsWith(Text(f[x].to), Text(targetdir))}}

\* SymlinksPlugin.beforeInstall: every name found is removed from home
beforeInstall(f) ==
  LET gone == {Home \o <<n>> : n \in find_symlinks(f, HomeP, ProfileDir)}
  IN  [q \in (DOMAIN f) \ gone |-> f[q]]

\* A first loop that removes what is at the target whatever the source is
Destroy_AnySource(f, target, source) ==
  IF ~lexists(f, target) THEN [err |-> "none", fs |-> f]
  ELSE IF islink(f, target) THEN [err |-> "none", fs |-> remove(f, target)]
  ELSE IF isdir(f, target) THEN [err |-> "none", fs |-> rmtree(f, target)]
  ELSE IF isfile(f, target) THEN [err |-> "none", fs |-> remove(f, target)]
  ELSE [err |-> "unknown", fs |-> f]

\* A first loop that leaves an existing symlink in place
Destroy_KeepsLink(f, target, source) ==
  IF ~lexists(f, target) THEN [err |-> "none", fs |-> f]
  ELSE IF islink(f, target) THEN [err |-> "none", fs |-> f]
  ELSE IF isdir(f, target)
    THEN IF ~isdir(f, source) THEN [err |-> "type", fs |-> f]
         ELSE [err |-> "none", fs |-> rmtree(f, target)]
  ELSE IF isfile(f, target)
    THEN IF ~isfile(f, source) THEN [err |-> "type", fs |-> f]
         ELSE [err |-> "none", fs |-> remove(f, target)]
  ELSE [err |-> "unknown", fs |-> f]

\* installProfile, lines 460-479: one iteration of the first loop
Destroy(f, target, source) ==
  IF ~lexists(f, target) THEN [err |-> "none", fs |-> f]
  ELSE IF islink(f, target) THEN [err |-> "none", fs |-> remove(f, target)]
  ELSE IF isdir(f, target)
    THEN IF ~isdir(f, source) THEN [err |-> "type", fs |-> f]
         ELSE [err |-> "none", fs |-> rmtree(f, target)]
  ELSE IF isfile(f, target)
    THEN IF ~isfile(f, source) THEN [err |-> "type", fs |-> f]
         ELSE [err |-> "none", fs |-> remove(f, target)]
  ELSE [err |-> "unknown", fs |-> f]

\* installProfile, lines 481-491: one iteration of the second loop; an OSError
\* of os.symlink is printed and the loop goes on.
Create(f, target, source_file) == symlink(f, source_file, Join(HomeP, target))

\* --------------------------------------------------------- install: actions

\* SymlinksPlugin.install: on to the next profile, or out of the loop
NextProfile ==
  IF pi < Len(active)
  THEN pc' = "get_symlinks" /\ pi' = pi + 1
  ELSE pc' = "plugins" /\ pi' = pi

\* runPluginBeforeInstall(): SymlinksPlugin.beforeInstall; the other three
\* plugins inherit Plugin.beforeInstall, which does nothing.
BeforeInstall ==
  /\ pc = "beforeInstall"
  /\ fs' = beforeInstall(fs)
  /\ pi' = 1
  /\ pc' = IF active = <<>> THEN "plugins" ELSE "get_symlinks"
  /\ UNCHANGED <<symlinks, copies, run, new_symlinks, ei, err, fsStart, history>>
  /\ UNCHANGED <<active, selectVars, envVars>>

\* installProfile, line 455
GetSymlinks ==
  /\ pc = "get_symlinks"
  /\ LET r == get_symlinks(fs, active[pi])
     IN  IF r.err # "none"
         THEN /\ pc' = "error"
              /\ err' = r.err
              /\ UNCHANGED <<pi, new_symlinks, ei>>
         ELSE /\ new_symlinks' = r.dict
              /\ ei' = 1
              /\ err' = err
              /\ IF r.dict = <<>> THEN NextProfile ELSE pc' = "destroy" /\ pi' = pi
  /\ UNCHANGED <<fs, symlinks, copies, run, fsStart, history>>
  /\ UNCHANGED <<active, selectVars, envVars>>

\* installProfile, lines 460-479, one entry at a time
DestroyStep ==
  /\ pc = "destroy"
  /\ LET r == Destroy(fs, new_symlinks[ei][1], new_symlinks[ei][2])
     IN  /\ fs' = r.fs
         /\ IF r.err # "none"
            THEN pc' = "error" /\ err' = r.err /\ ei' = ei
            ELSE /\ err' = err
                 /\ IF ei < Len(new_symlinks)
                    THEN pc' = "destroy" /\ ei' = ei + 1
                    ELSE pc' = "create" /\ ei' = 1
  /\ UNCHANGED <<symlinks, copies, run, pi, new_symlinks, fsStart, history>>
  /\ UNCHANGED <<active, selectVars, envVars>>

\* A second loop that lets the OSError of os.symlink through
CreateStep_Raises ==
  /\ pc = "create"
  /\ IF CanSymlink(fs, Join(HomeP, new_symlinks[ei][1]))
     THEN /\ fs' = Create(fs, new_symlinks[ei][1], new_symlinks[ei][2])
          /\ err' = err
          /\ IF ei < Len(new_symlinks)
             THEN pc' = "create" /\ ei' = ei + 1 /\ pi' = pi
             ELSE ei' = ei /\ NextProfile
     ELSE pc' = "error" /\ err' = "create" /\ UNCHANGED <<fs, ei, pi>>
  /\ UNCHANGED <<symlinks, copies, run, new_symlinks, fsStart, history>>
  /\ UNCHANGED <<active, selectVars, envVars>>

\* installProfile, lines 481-491, one entry at a time
CreateStep ==
  /\ pc = "create"
  /\ fs' = Create(fs, new_symlinks[ei][1], new_symlinks[ei][2])
  /\ IF ei < Len(new_symlinks)
     THEN pc' = "create" /\ ei' = ei + 1 /\ pi' = pi
     ELSE ei' = ei /\ NextProfile
  /\ UNCHANGED <<symlinks, copies, run, new_symlinks, err, fsStart, history>>
  /\ UNCHANGED <<active, selectVars, envVars>>

\* runPluginInstall(), the plugins after SymlinksPlugin: CopiesPlugin,
\* EnvPlugin and OnLoginPlugin define no install() and inherit Plugin.install,
\* which does nothing.
PluginInstall == 
  /\ pc = "plugins"
  /\ pc' = "done"
  /\ UNCHANGED <<fs, symlinks, copies, run, pi, new_symlinks, ei, err, fsStart, history>>
  /\ UNCHANGED <<active, selectVars, envVars>>

\* The user runs `myenv install` again: nothing else touched the filesystem.
NextRun ==
  /\ pc \in {"done", "error"}
  /\ run < MaxRuns
  /\ history' = Append(history, [fs |-> fs, pc |-> pc, err |-> err])
  /\ run' = run + 1
  /\ fsStart' = fs
  /\ pc' = "beforeInstall"
  /\ err' = "none"
  /\ pi' = 1
  /\ ei' = 1
  /\ new_symlinks' = <<>>
  /\ UNCHANGED <<fs, symlinks, copies>>
  /\ UNCHANGED <<active, selectVars, envVars>>

\* ------------------------------------------------------------------- JSON

\* A JSON value: ty is "str", "list", "dict" or "num".  A string holds a path
\* (p) or a host name (h, its characters); a list holds host names (l); an
\* object holds its <<key, value>> pairs in document order (d).
JPath(p) == [ty |-> "str", p |-> p, h |-> <<>>, l |-> <<>>, d |-> <<>>]

JName(h) == [ty |-> "str", p |-> NoText, h |-> h, l |-> <<>>, d |-> <<>>]

JList(l) == [ty |-> "list", p |-> NoText, h |-> <<>>, l |-> l, d |-> <<>>]

JDict(d) == [ty |-> "dict", p |-> NoText, h |-> <<>>, l |-> <<>>, d |-> d]

JNum == [ty |-> "num", p |-> NoText, h |-> <<>>, l |-> <<>>, d |-> <<>>]

\* -------------------------------------------------------------- selectors

\* socket.getfqdn().lower()
Fqdn == <<"w", ".", "x">>

\* str.find('.'): the first index of a dot, 0 when there is none
DotIdx(str) ==
  IF \E i \in 1..Len(str) : str[i] = "."
  THEN CHOOSE i \in 1..Len(str) : str[i] = "." /\ \A j \in 1..(i - 1) : str[j] # "."
  ELSE 0

EndsWith(str, suffix) ==
  /\ Len(suffix) <= Len(str)
  /\ SubSeq(str, Len(str) - Len(suffix) + 1, Len(str)) = suffix

\* HostSelector.is_active, lines 215-237
HostMatches(hosts) ==
  LET hostname == IF DotIdx(Fqdn) = 0 THEN Fqdn ELSE SubSeq(Fqdn, 1, DotIdx(Fqdn) - 1)
  IN  \E i \in 1..Len(hosts) :
        \/ hosts[i] = <<"*">>
        \/ hosts[i] = Fqdn
        \/ hosts[i] = hostname
        \/ (hosts[i] # <<>> /\ hosts[i][1] = "." /\ EndsWith(Fqdn, hosts[i]))

\* The outcome of is_active(): "T", "F", or the exception it raises
Bool(b) == IF b THEN "T" ELSE "F"

\* A negation that hands the result back as it came
Neg_Identity(r) == r

Neg(r) == IF r = "T" THEN "F" ELSE IF r = "F" THEN "T" ELSE r

SELECTOR_MAPPINGS == {"host", "dir", "file", "and", "not", "or"}

\* create_selectors(json): the selector objects in document order, or the
\* ValueError of the first unknown key
RECURSIVE create_selectors_from(_, _)
create_selectors_from(d, list) ==
  IF d = <<>> THEN [err |-> "none", sels |-> list]
  ELSE IF Head(d)[1] \notin SELECTOR_MAPPINGS THEN [err |-> "ValueError", sels |-> <<>>]
  ELSE create_selectors_from(Tail(d), Append(list, [cls |-> Head(d)[1], config |-> Head(d)[2]]))

create_selectors(json) ==
  IF json.ty # "dict" THEN [err |-> "AttributeError", sels |-> <<>>]
  ELSE create_selectors_from(json.d, <<>>)

NeverSelector == [cls |-> "never", config |-> JDict(<<>>)]

RECURSIVE is_active(_, _)
RECURSIVE AndLoop(_, _)
RECURSIVE OrLoop(_, _)

\* An "and" that finds no selector to be active when it holds none
AndLoop_EmptyInactive(f, subselectors) ==
  IF subselectors = <<>> THEN "F"
  ELSE LET r == is_active(f, Head(subselectors))
       IN  IF r = "T" /\ Len(subselectors) > 1
           THEN AndLoop(f, Tail(subselectors)) ELSE r

\* AndSelector.is_active, lines 299-303
AndLoop(f, subselectors) ==
  IF subselectors = <<>> THEN "T"
  ELSE LET r == is_active(f, Head(subselectors))
       IN  IF r = "T" THEN AndLoop(f, Tail(subselectors)) ELSE r

\* OrSelector.is_active, lines 330-334
OrLoop(f, subselectors) ==
  IF subselectors = <<>> THEN "F"
  ELSE LET r == is_active(f, Head(subselectors))
       IN  IF r = "F" THEN OrLoop(f, Tail(subselectors)) ELSE r

\* Selector.is_active of each class
is_active(f, sel) ==
  LET config == sel.config
      sub == create_selectors(config)
  IN  CASE sel.cls = "never" -> "F"
        [] sel.cls = "host" ->
             IF config.ty = "str" THEN Bool(HostMatches(<<config.h>>))
             ELSE IF config.ty = "list" THEN Bool(HostMatches(config.l))
             ELSE "ValueError"
        [] sel.cls = "dir" ->
             IF config.ty = "str" THEN Bool(isdir(f, expand(config.p))) ELSE "ValueError"
        [] sel.cls = "file" ->
             IF config.ty = "str" THEN Bool(isfile(f, expand(config.p))) ELSE "ValueError"
        [] sel.cls = "and" ->
             IF config.ty # "dict" THEN "ValueError"
             ELSE IF sub.err # "none" THEN sub.err
             ELSE AndLoop(f, sub.sels)
        [] sel.cls = "or" ->
             IF config.ty # "dict" THEN "ValueError"
             ELSE IF sub.err # "none" THEN sub.err
             ELSE OrLoop(f, sub.sels)
        [] sel.cls = "not" ->
             IF config.ty # "dict" THEN "ValueError"
             ELSE IF Len(config.d) > 1 THEN "ValueError"
             ELSE IF sub.err # "none" THEN sub.err
             ELSE IF sub.sels = <<>> THEN "IndexError"
             ELSE Neg(is_active(f, sub.sels[1]))

\* ------------------------------------------------- profiles (load, select)


\* A profile.json document.  syntax "bad": not valid JSON; "nofile": the
\* directory holds no profile.json; "nodir": there is no such directory.
\* hasSelectors: the document has a "selectors" key.
Doc(hasSelectors, selectors, onlogin) ==
  [syntax |-> "ok", hasSelectors |-> hasSelectors, selectors |-> selectors,
   onlogin |-> onlogin]

BadDoc == [syntax |-> "bad", hasSelectors |-> FALSE, selectors |-> JNum, onlogin |-> <<>>]

NoFile == [syntax |-> "nofile", hasSelectors |-> FALSE, selectors |-> JNum, onlogin |-> <<>>]

NoDir == [syntax |-> "nodir", hasSelectors |-> FALSE, selectors |-> JNum, onlogin |-> <<>>]

\* The names os.listdir(profile_dir) may return, in its order
Listing == <<"A", "B", "original">>

\* A loadJson that takes a document it cannot parse for an empty one
loadJson_BadAsEmpty(name, doc) ==
  LET made == create_selectors(doc.selectors)
      read == IF doc.syntax = "bad" THEN Doc(FALSE, JNum, <<>>) ELSE doc
  IN  IF ~doc.hasSelectors
      THEN [err |-> "none",
            profile |-> [name |-> name, safeToWrite |-> TRUE,
                         json |-> [set |-> TRUE, doc |-> read],
                         selector |-> [none |-> TRUE, sels |-> <<>>]]]
      ELSE [err |-> made.err,
            profile |-> [name |-> name, safeToWrite |-> TRUE,
                         json |-> [set |-> TRUE, doc |-> read],
                         selector |-> [none |-> FALSE, sels |-> made.sels]]]

\* RemoteProfile.__init__ and loadJson: the instance, or the exception that
\* loadJson does not catch.  json.set is FALSE when self.json was never
\* assigned; selector.none is TRUE for self.selector = None.
loadJson(name, doc) ==
  LET made == create_selectors(doc.selectors)
  IN  IF doc.syntax = "bad"
      THEN [err |-> "none",
            profile |-> [name |-> name, safeToWrite |-> FALSE,
                         json |-> [set |-> FALSE, doc |-> NoFile],
                         selector |-> [none |-> FALSE, sels |-> <<NeverSelector>>]]]
      ELSE IF ~doc.hasSelectors
      THEN [err |-> "none",
            profile |-> [name |-> name, safeToWrite |-> TRUE,
                         json |-> [set |-> TRUE, doc |-> doc],
                         selector |-> [none |-> TRUE, sels |-> <<>>]]]
      ELSE [err |-> made.err,
            profile |-> [name |-> name, safeToWrite |-> TRUE,
                         json |-> [set |-> TRUE, doc |-> doc],
                         selector |-> [none |-> FALSE, sels |-> made.sels]]]

\* RemoteProfile.saveJson: the document the file holds afterwards
saveJson(profile, doc) == IF ~profile.safeToWrite THEN doc ELSE profile.json.doc

\* add_profile: profiles[profile.name] = profile
add_profile(dict, profile) ==
  IF \E i \in 1..Len(dict) : dict[i].name = profile.name
  THEN [i \in 1..Len(dict) |-> IF dict[i].name = profile.name THEN profile ELSE dict[i]]
  ELSE Append(dict, profile)

\* select_profiles, lines 697-709: whether one profile is appended, or the
\* exception one of its selectors raises
RECURSIVE SelectorLoop(_, _)
SelectorLoop(f, sels) ==
  IF sels = <<>> THEN "T"
  ELSE LET r == is_active(f, Head(sels))
       IN  IF r = "T" THEN SelectorLoop(f, Tail(sels)) ELSE r

\* A loop that stops after the first selector whatever it says
Selects_FirstOnly(f, profile) ==
  IF profile.selector.none \/ profile.selector.sels = <<>> THEN "T"
  ELSE is_active(f, profile.selector.sels[1])

Selects(f, profile) ==
  IF profile.selector.none THEN "T" ELSE SelectorLoop(f, profile.selector.sels)

\* ------------------------------------------------- load, select: actions

NoProfile ==
  [name |-> "", safeToWrite |-> FALSE, json |-> [set |-> FALSE, doc |-> NoFile],
   selector |-> [none |-> TRUE, sels |-> <<>>]]

Names(list) == [i \in 1..Len(list) |-> list[i].name]

\* Lines 771-775, one directory entry at a time: an entry that is a directory
\* holding a profile.json is loaded and registered.
LoadStep ==
  /\ spc = "load"
  /\ LET name == Listing[li]
         r == loadJson(name, files[name])
         isProfile == files[name].syntax \in {"ok", "bad"}
     IN  IF isProfile /\ r.err # "none"
         THEN spc' = "error" /\ serr' = r.err /\ UNCHANGED <<profiles, li>>
         ELSE /\ profiles' = IF isProfile THEN add_profile(profiles, r.profile) ELSE profiles
              /\ serr' = serr
              /\ IF li < Len(Listing)
                 THEN spc' = "load" /\ li' = li + 1
                 ELSE spc' = "select" /\ li' = li
  /\ UNCHANGED <<files, files0, si, ret, shell, hi, origProfile>>
  /\ UNCHANGED <<active, installVars, envVars>>

\* select_profiles, lines 696-709: one profile of the dict
SelectStep ==
  /\ spc = "select"
  /\ si <= Len(profiles)
  /\ LET r == Selects(fs, profiles[si])
     IN  IF r \notin {"T", "F"}
         THEN spc' = "error" /\ serr' = r /\ UNCHANGED <<ret, si>>
         ELSE /\ ret' = IF r = "T" THEN Append(ret, profiles[si]) ELSE ret
              /\ si' = si + 1
              /\ UNCHANGED <<spc, serr>>
  /\ UNCHANGED <<files, files0, profiles, li, shell, hi, origProfile>>
  /\ UNCHANGED <<active, installVars, envVars>>

\* select_profiles returns and line 777 rebinds `profiles` to the list
SelectReturn ==
  /\ spc = "select"
  /\ si > Len(profiles)
  /\ active' = Names(ret)
  /\ spc' = "shell"
  /\ UNCHANGED <<files, files0, profiles, serr, li, si, ret, shell, hi, origProfile>>
  /\ UNCHANGED <<installVars, envVars>>

\* The install operation's list of shell profile files, line 823
ShellProfileFiles == <<".profile", ".zprofile", ".xprofile", ".bash_profile">>

\* createNewProfileIfNeeded('original'), lines 752-760: the document the file
\* holds once the directory is there
OriginalDoc(docs) ==
  IF docs["original"].syntax = "nodir" THEN Doc(FALSE, JNum, <<>>) ELSE docs["original"]

\* Lines 823-876, one shell profile file at a time.  A file of the user's is
\* moved into the 'original' profile, whose "onlogin" list gets its name and
\* whose profile.json is saved; then the file is written anew.  The profile
\* is made at the first such file and kept.
ShellStep ==
  /\ spc = "shell"
  /\ LET name == ShellProfileFiles[hi]
         made == IF origProfile.name = ""
                 THEN IF OriginalDoc(files).syntax = "nofile"
                      THEN [err |-> "OSError", profile |-> NoProfile]
                      ELSE loadJson("original", OriginalDoc(files))
                 ELSE [err |-> "none", profile |-> origProfile]
         appended == [made.profile EXCEPT
                        !.json.doc.onlogin = Append(@, name)]
         step == IF hi < Len(ShellProfileFiles)
                 THEN spc' = "shell" /\ hi' = hi + 1
                 ELSE spc' = "installed" /\ hi' = hi
     IN  CASE shell[name] = "myenv" ->
                /\ step
                /\ UNCHANGED <<files, shell, origProfile, serr>>
           [] shell[name] = "absent" ->
                /\ shell' = [shell EXCEPT ![name] = "myenv"]
                /\ step
                /\ UNCHANGED <<files, origProfile, serr>>
           [] shell[name] = "user" ->
                IF made.err # "none"
                THEN /\ spc' = "error"
                     /\ serr' = made.err
                     /\ files' = [files EXCEPT !["original"] = OriginalDoc(files)]
                     /\ UNCHANGED <<shell, origProfile, hi>>
                ELSE IF ~made.profile.json.set
                THEN /\ spc' = "error"
                     /\ serr' = "AttributeError"
                     /\ shell' = [shell EXCEPT ![name] = "absent"]
                     /\ origProfile' = made.profile
                     /\ UNCHANGED <<files, hi>>
                ELSE /\ origProfile' = appended
                     /\ files' = [files EXCEPT
                                    !["original"] = saveJson(appended, OriginalDoc(files))]
                     /\ shell' = [shell EXCEPT ![name] = "myenv"]
                     /\ serr' = serr
                     /\ step
  /\ UNCHANGED <<files0, profiles, li, si, ret>>
  /\ UNCHANGED <<active, installVars, envVars>>

\* ------------------------------------------------ environment: operators

\* A value of "env": a string (s, its characters), a list of paths (l), or a
\* number, which is neither.
EStr(chars) == [ty |-> "str", s |-> chars, l |-> <<>>]

EList(paths) == [ty |-> "list", s |-> <<>>, l |-> paths]

ENum == [ty |-> "num", s |-> <<>>, l |-> <<>>]

\* sep.join(strs)
RECURSIVE JoinStr(_, _)
JoinStr(sep, strs) ==
  IF strs = <<>> THEN <<>>
  ELSE IF Len(strs) = 1 THEN strs[1]
  ELSE strs[1] \o sep \o JoinStr(sep, Tail(strs))

\* generateDotProfile, lines 577-585: one element of a list value
ResolveElement(name, vv) ==
  LET e == expand(vv) IN Text(IF ~IsAbs(e) THEN Join(ProfilePath(name), e) ELSE e)

\* The nested loops of lines 563-566 visit these <<profile, name, value>> in
\* this order.
RECURSIVE WorkOf(_)
WorkOf(names) ==
  IF names = <<>> THEN <<>>
  ELSE [i \in 1..Len(env[Head(names)]) |->
          <<Head(names), env[Head(names)][i][1], env[Head(names)][i][2]>>]
       \o WorkOf(Tail(names))

Work == WorkOf(active)

\* A merge whose string branch does not look at what the variable held
EnvPut_NoStringCheck(d, name, k, v) ==
  LET has == k \in DictKeys(d)
      old == d[DictGet(d, k)][2]
      new_v == [i \in 1..Len(v.l) |-> ResolveElement(name, v.l[i])]
  IN  IF v.ty = "str"
      THEN [err |-> "none", dict |-> DictPut(d, k, [ty |-> "str", s |-> v.s, l |-> <<>>])]
      ELSE IF v.ty = "list"
      THEN IF has
           THEN IF old.ty # "list" THEN [err |-> "TypeError", dict |-> d]
                ELSE [err |-> "none",
                      dict |-> DictPut(d, k, [ty |-> "list", s |-> <<>>, l |-> old.l \o new_v])]
           ELSE [err |-> "none", dict |-> DictPut(d, k, [ty |-> "list", s |-> <<>>, l |-> new_v])]
      ELSE [err |-> "TypeError", dict |-> d]

\* generateDotProfile, lines 568-598: one (profile, variable, value); the
\* dict afterwards, or the exception.  Both representation checks raise while
\* they format their message, a TypeError in place of the ValueError.
EnvPut(d, name, k, v) ==
  LET has == k \in DictKeys(d)
      old == d[DictGet(d, k)][2]
      new_v == [i \in 1..Len(v.l) |-> ResolveElement(name, v.l[i])]
  IN  IF v.ty = "str"
      THEN IF has /\ old.ty # "str" THEN [err |-> "TypeError", dict |-> d]
           ELSE [err |-> "none", dict |-> DictPut(d, k, [ty |-> "str", s |-> v.s, l |-> <<>>])]
      ELSE IF v.ty = "list"
      THEN IF has
           THEN IF old.ty # "list" THEN [err |-> "TypeError", dict |-> d]
                ELSE [err |-> "none",
                      dict |-> DictPut(d, k, [ty |-> "list", s |-> <<>>, l |-> old.l \o new_v])]
           ELSE [err |-> "none", dict |-> DictPut(d, k, [ty |-> "list", s |-> <<>>, l |-> new_v])]
      ELSE [err |-> "TypeError", dict |-> d]

\* generateDotProfile, lines 600-608: the export statement of one variable
Export(k, v) ==
  IF v.ty = "list"
  THEN IF environ[k].set
       THEN [var |-> k, val |-> environ[k].val \o <<":">> \o JoinStr(<<":">>, v.l)]
       ELSE [var |-> k, val |-> JoinStr(<<":">>, v.l)]
  ELSE [var |-> k, val |-> v.s]

\* -------------------------------------------------- environment: actions

\* generateDotProfile, lines 563-598, one variable of one profile at a time
EnvStep ==
  /\ epc = "env"
  /\ wi <= Len(Work)
  /\ LET r == EnvPut(envret, Work[wi][1], Work[wi][2], Work[wi][3])
     IN  IF r.err # "none"
         THEN epc' = "error" /\ UNCHANGED <<wi, envret>>
         ELSE epc' = epc /\ wi' = wi + 1 /\ envret' = r.dict
  /\ UNCHANGED <<env, environ, out>>
  /\ UNCHANGED <<active, installVars, selectVars>>

\* generateDotProfile, lines 600-610, and the profile operation, lines
\* 884-888: the statements are built and printed.  The other plugins
\* contribute nothing here (no profile of the model has "onlogin").
PrintExports ==
  /\ epc = "env"
  /\ wi > Len(Work)
  /\ out' = [i \in 1..Len(envret) |-> Export(envret[i][1], envret[i][2])]
  /\ epc' = "done"
  /\ UNCHANGED <<env, environ, wi, envret>>
  /\ UNCHANGED <<active, installVars, selectVars>>

\* ----------------------------------------------------- install: first state

Ka == Rel(<<"a">>)
Kb == Rel(<<"b">>)
Knested == Rel(<<"d", "x">>)
Ktilde == Tilde(<<"a">>)
Ksibling == Abs(<<"h2", "x">>)
Koutside == Abs(<<"e", "x">>)
Kdot == Rel(<<".">>)

Sfile == Rel(<<"s">>)
Sdir == Rel(<<"t">>)
Smissing == Rel(<<"n">>)
Shome == Rel(<<"..", "..">>)

\* The entries profile A's "symlinks" is drawn from
EntriesA ==
  { <<Ka, Sfile>>, <<Ka, Sdir>>, <<Ka, Smissing>>, <<Kb, Sfile>>,
    <<Knested, Shome>>, <<Ksibling, Sfile>>, <<Koutside, Sfile>>, <<Kdot, Sfile>> }

\* and profile B's
EntriesB == { <<Ka, Sfile>>, <<Ktilde, Sdir>>, <<Kb, Smissing>>, <<Knested, Sfile>> }

\* JSON objects of at most two entries with different keys
DictsOver(E) ==
  {<<>>} \cup {<<e>> : e \in E}
         \cup {d \in {<<e1, e2>> : e1 \in E, e2 \in E} : d[1][1] # d[2][1]}

\* What every first state holds: the profile directory with profiles A and B
\* (a source file s and a source directory t each), a sibling of the home
\* directory and a directory outside it.
BaseFS ==
  ( <<"h">> :> Dir ) @@ ( <<"h", "m">> :> Dir ) @@
  ( <<"h", "m", "A">> :> Dir ) @@ ( <<"h", "m", "A", "s">> :> File ) @@
  ( <<"h", "m", "A", "t">> :> Dir ) @@
  ( <<"h", "m", "B">> :> Dir ) @@ ( <<"h", "m", "B", "s">> :> File ) @@
  ( <<"h", "m", "B", "t">> :> Dir ) @@
  ( <<"h2">> :> Dir ) @@ ( <<"e">> :> Dir )

\* A link an earlier install of profile B left, and a link to the same file
\* made by hand with a relative text.
StaleText == Abs(<<"h", "m", "B", "s">>)

RelativeText == Rel(<<"m", "B", "s">>)

Empty == [q \in {} |-> Dir]

\* ~/a: absent, a file, a directory with a file in it, a fifo, a stale link
HomeA ==
  { Empty, <<"h", "a">> :> File,
    ( <<"h", "a">> :> Dir ) @@ ( <<"h", "a", "x">> :> File ),
    <<"h", "a">> :> Fifo, <<"h", "a">> :> Link(StaleText) }

\* ~/d: absent or a directory
HomeD == { Empty, <<"h", "d">> :> Dir }

\* ~/o, which no profile claims: absent, a stale link, a relative link
HomeO ==
  { Empty, <<"h", "o">> :> Link(StaleText), <<"h", "o">> :> Link(RelativeText) }

InitialFS == {BaseFS @@ a @@ d @@ o : a \in HomeA, d \in HomeD, o \in HomeO}

\* The first states of `myenv install`: the other operations' variables rest.
Init ==
  /\ fs \in InitialFS
  /\ active \in {<<"A">>, <<"A", "B">>}
  /\ symlinks \in [{"A", "B"} -> DictsOver(EntriesA) \cup DictsOver(EntriesB)]
  /\ symlinks["A"] \in DictsOver(EntriesA)
  /\ symlinks["B"] \in (IF Len(active) = 2 THEN {<<e>> : e \in EntriesB} ELSE {<<>>})
  /\ copies = [n \in {"A", "B"} |-> IF n = "A" THEN <<<<Sfile, Sfile>>>> ELSE <<>>]
  /\ pc = "beforeInstall"
  /\ run = 1
  /\ pi = 1
  /\ new_symlinks = <<>>
  /\ ei = 1
  /\ err = "none"
  /\ fsStart = fs
  /\ history = <<>>
  /\ files = [n \in {"A", "B", "original"} |-> NoDir]
  /\ files0 = files
  /\ profiles = <<>>
  /\ spc = "idle"
  /\ serr = "none"
  /\ li = 1
  /\ si = 1
  /\ ret = <<>>
  /\ shell = [n \in {".profile", ".zprofile", ".xprofile", ".bash_profile"} |-> "myenv"]
  /\ hi = 1
  /\ origProfile = NoProfile
  /\ env = [n \in {"A", "B"} |-> <<>>]
  /\ environ = [k \in {"P", "F"} |-> [set |-> FALSE, val |-> <<>>]]
  /\ epc = "idle"
  /\ wi = 1
  /\ envret = <<>>
  /\ out = <<>>

InstallNext ==
  \/ BeforeInstall
  \/ GetSymlinks
  \/ DestroyStep
  \/ CreateStep
  \/ PluginInstall
  \/ NextRun

\* `myenv install` from runPluginBeforeInstall() on, run MaxRuns times, for
\* every first filesystem, active list and "symlinks" above
Spec == Init /\ [][InstallNext]_vars

\* ------------------------------------------------ load, select: first state

SomeFile == Tilde(<<"m", "A", "s">>)

SomeDir == Tilde(<<"m">>)

Nothing == Tilde(<<"n">>)

\* The values of "selectors" the documents are drawn from
SelectorDocs ==
  { JDict(<<>>),
    JDict(<< <<"file", JPath(SomeFile)>> >>),
    JDict(<< <<"file", JPath(Nothing)>> >>),
    JDict(<< <<"dir", JPath(SomeDir)>>, <<"file", JPath(Nothing)>> >>),
    JDict(<< <<"dir", JPath(SomeDir)>>, <<"host", JName(<<"w">>)>> >>),
    JDict(<< <<"host", JList(<< <<"v">>, <<".", "y">> >>)>> >>),
    JDict(<< <<"not", JDict(<< <<"file", JPath(Nothing)>> >>)>> >>),
    JDict(<< <<"and", JDict(<< <<"file", JPath(SomeFile)>>, <<"dir", JPath(Nothing)>> >>)>> >>),
    JDict(<< <<"or", JDict(<< <<"file", JPath(Nothing)>>, <<"host", JName(<<".", "x">>)>> >>)>> >>),
    JDict(<< <<"file", JPath(Nothing)>>, <<"dir", JNum>> >>),
    JDict(<< <<"file", JNum>> >>),
    JDict(<< <<"cmd", JPath(SomeFile)>> >>) }

ProfileDocs ==
  {BadDoc, NoFile, Doc(FALSE, JNum, <<>>)} \cup {Doc(TRUE, j, <<>>) : j \in SelectorDocs}

OriginalDocs ==
  {NoDir, NoFile, BadDoc, Doc(FALSE, JNum, <<>>), Doc(FALSE, JNum, <<"profile">>)}

\* The shell profile files in the home directory
Shells ==
  { [n \in {".profile", ".zprofile", ".xprofile", ".bash_profile"} |-> "absent"],
    [n \in {".profile", ".zprofile", ".xprofile", ".bash_profile"} |->
       IF n = ".profile" THEN "user" ELSE "absent"],
    [n \in {".profile", ".zprofile", ".xprofile", ".bash_profile"} |->
       IF n = ".profile" THEN "myenv" ELSE IF n = ".zprofile" THEN "user" ELSE "absent"],
    [n \in {".profile", ".zprofile", ".xprofile", ".bash_profile"} |->
       IF n \in {".profile", ".bash_profile"} THEN "user" ELSE "myenv"] }

SelectInit ==
  /\ files \in [{"A", "B", "original"} -> ProfileDocs \cup OriginalDocs]
  /\ files["A"] \in ProfileDocs
  /\ files["B"] \in ProfileDocs
  /\ files["original"] \in OriginalDocs
  /\ files0 = files
  /\ profiles = <<>>
  /\ spc = "load"
  /\ serr = "none"
  /\ li = 1
  /\ si = 1
  /\ ret = <<>>
  /\ shell \in Shells
  /\ hi = 1
  /\ origProfile = NoProfile
  /\ active = <<>>
  /\ fs = BaseFS
  /\ symlinks = [n \in {"A", "B"} |-> <<>>]
  /\ copies = [n \in {"A", "B"} |-> <<>>]
  /\ pc = "idle"
  /\ run = 1
  /\ pi = 1
  /\ new_symlinks = <<>>
  /\ ei = 1
  /\ err = "none"
  /\ fsStart = fs
  /\ history = <<>>
  /\ env = [n \in {"A", "B"} |-> <<>>]
  /\ environ = [k \in {"P", "F"} |-> [set |-> FALSE, val |-> <<>>]]
  /\ epc = "idle"
  /\ wi = 1
  /\ envret = <<>>
  /\ out = <<>>

SelectNext ==
  \/ LoadStep
  \/ SelectStep
  \/ SelectReturn
  \/ ShellStep

\* The program from its start to the end of the install operation's shell
\* profile loop
SelectSpec == SelectInit /\ [][SelectNext]_vars

\* ------------------------------------------------ environment: first state

Relative == Rel(<<"b">>)

Absolute == Abs(<<"q">>)

EnvEntries ==
  { <<"P", EList(<<>>)>>, <<"P", EList(<<Relative>>)>>,
    <<"P", EList(<<Relative, Absolute>>)>>, <<"P", EList(<<Relative, Relative>>)>>,
    <<"P", EStr(<<"v">>)>>,
    <<"F", EStr(<<"v">>)>>, <<"F", EStr(<<"w">>)>>,
    <<"F", EList(<<Tilde(<<"c">>)>>)>>, <<"F", ENum>> }

EnvInit ==
  /\ active \in {<<"A">>, <<"A", "B">>}
  /\ env \in [{"A", "B"} -> DictsOver(EnvEntries)]
  /\ Len(active) = 1 => env["B"] = <<>>
  /\ environ \in {[k \in {"P", "F"} |-> [set |-> FALSE, val |-> <<>>]],
                  [k \in {"P", "F"} |-> [set |-> k = "P", val |-> IF k = "P" THEN <<"/", "u">> ELSE <<>>]]}
  /\ epc = "env"
  /\ wi = 1
  /\ envret = <<>>
  /\ out = <<>>
  /\ fs = BaseFS
  /\ symlinks = [n \in {"A", "B"} |-> <<>>]
  /\ copies = [n \in {"A", "B"} |-> <<>>]
  /\ pc = "idle"
  /\ run = 1
  /\ pi = 1
  /\ new_symlinks = <<>>
  /\ ei = 1
  /\ err = "none"
  /\ fsStart = fs
  /\ history = <<>>
  /\ files = [n \in {"A", "B", "original"} |-> NoDir]
  /\ files0 = files
  /\ profiles = <<>>
  /\ spc = "idle"
  /\ serr = "none"
  /\ li = 1
  /\ si = 1
  /\ ret = <<>>
  /\ shell = [n \in {".profile", ".zprofile", ".xprofile", ".bash_profile"} |-> "myenv"]
  /\ hi = 1
  /\ origProfile = NoProfile

EnvNext ==
  \/ EnvStep
  \/ PrintExports

\* `myenv profile` from runPluginGenerateDotProfile() on
EnvSpec == EnvInit /\ [][EnvNext]_vars

\* ------------------------------------------- selector trees: first state

\* How deep the "and"/"or"/"not" of a tree nest
MaxDepth == 2

\* The leaves: <<kind, value>> entries that hold no other selector.  ~/n is
\* not there, ~/.myenv/A/s is a file, the host is w.x.
ActiveLeaves == { <<"file", JPath(SomeFile)>>, <<"host", JName(<<"w">>)>> }

InactiveLeaves == { <<"file", JPath(Nothing)>>, <<"dir", JPath(Nothing)>> }

MalformedLeaves == { <<"dir", JNum>>, <<"cmd", JPath(SomeFile)>> }

Leaves == ActiveLeaves \cup InactiveLeaves \cup MalformedLeaves

\* The leaves that stand next to another entry of an object
PairLeaves == { <<"host", JName(<<"w">>)>>, <<"file", JPath(Nothing)>> }

\* The JSON objects of at most two entries, one of the two a leaf of
\* PairLeaves, in either order; an object holds a key once.
ObjectsOver(E) ==
  {<<>>} \cup {<<e>> : e \in E}
         \cup {o \in {<<e, l>> : e \in E, l \in PairLeaves} : o[1][1] # o[2][1]}
         \cup {o \in {<<l, e>> : e \in E, l \in PairLeaves} : o[1][1] # o[2][1]}

RECURSIVE EntriesOfDepth(_)
EntriesOfDepth(n) ==
  IF n = 0 THEN Leaves
  ELSE EntriesOfDepth(n - 1)
       \cup {<<k, JDict(o)>> : k \in {"and", "or", "not"},
                               o \in ObjectsOver(EntriesOfDepth(n - 1))}
       \cup {<<k, JNum>> : k \in {"and", "or", "not"}}

\* The values of "selectors" of the one profile whose tree is looked at
SelectorTrees(n) == {JDict(o) : o \in ObjectsOver(EntriesOfDepth(n))}

SelectorInit ==
  /\ \E j \in SelectorTrees(MaxDepth) :
       files = [n \in {"A", "B", "original"} |->
                  IF n = "A" THEN Doc(TRUE, j, <<>>) ELSE IF n = "B" THEN NoFile ELSE NoDir]
  /\ files0 = files
  /\ profiles = <<>>
  /\ spc = "load"
  /\ serr = "none"
  /\ li = 1
  /\ si = 1
  /\ ret = <<>>
  /\ shell = [n \in {".profile", ".zprofile", ".xprofile", ".bash_profile"} |-> "myenv"]
  /\ hi = 1
  /\ origProfile = NoProfile
  /\ active = <<>>
  /\ fs = BaseFS
  /\ symlinks = [n \in {"A", "B"} |-> <<>>]
  /\ copies = [n \in {"A", "B"} |-> <<>>]
  /\ pc = "idle"
  /\ run = 1
  /\ pi = 1
  /\ new_symlinks = <<>>
  /\ ei = 1
  /\ err = "none"
  /\ fsStart = fs
  /\ history = <<>>
  /\ env = [n \in {"A", "B"} |-> <<>>]
  /\ environ = [k \in {"P", "F"} |-> [set |-> FALSE, val |-> <<>>]]
  /\ epc = "idle"
  /\ wi = 1
  /\ envret = <<>>
  /\ out = <<>>

\* The program from its start to the end of the install operation's shell
\* profile loop, with one profile and a selector tree of any shape
SelectorSpec == SelectorInit /\ [][SelectNext]_vars

\* ------------------------------------ install into the store: first state

\* Keys that name a place in the profile directory: profile A's own source
\* file, and profile B's directory.
Kstore == Rel(<<"m", "A", "s">>)
Kprofile == Rel(<<"m", "B">>)

StoreEntries ==
  { <<Kstore, Sfile>>, <<Kprofile, Sdir>>, <<Ka, Sfile>>, <<Kb, Sdir>>, <<Ka, Smissing>> }

\* The first states of `myenv install` with such keys in profile A
StoreInit ==
  /\ fs \in {BaseFS @@ a : a \in HomeA}
  /\ active \in {<<"A">>, <<"A", "B">>}
  /\ \E d \in DictsOver(StoreEntries) :
       \E b \in (IF Len(active) = 2 THEN {<<e>> : e \in EntriesB} ELSE {<<>>}) :
         symlinks = [n \in {"A", "B"} |-> IF n = "A" THEN d ELSE b]
  /\ copies = [n \in {"A", "B"} |-> <<>>]
  /\ pc = "beforeInstall"
  /\ run = 1
  /\ pi = 1
  /\ new_symlinks = <<>>
  /\ ei = 1
  /\ err = "none"
  /\ fsStart = fs
  /\ history = <<>>
  /\ files = [n \in {"A", "B", "original"} |-> NoDir]
  /\ files0 = files
  /\ profiles = <<>>
  /\ spc = "idle"
  /\ serr = "none"
  /\ li = 1
  /\ si = 1
  /\ ret = <<>>
  /\ shell = [n \in {".profile", ".zprofile", ".xprofile", ".bash_profile"} |-> "myenv"]
  /\ hi = 1
  /\ origProfile = NoProfile
  /\ env = [n \in {"A", "B"} |-> <<>>]
  /\ environ = [k \in {"P", "F"} |-> [set |-> FALSE, val |-> <<>>]]
  /\ epc = "idle"
  /\ wi = 1
  /\ envret = <<>>
  /\ out = <<>>

\* `myenv install` with targets in the profile directory
StoreSpec == StoreInit /\ [][InstallNext]_vars

\* ================================================================ claims

Range(seq) == {seq[i] : i \in 1..Len(seq)}

\* The symlinks of a filesystem, each with its text
Links(f) == {<<q, f[q].to>> : q \in {x \in DOMAIN f : f[x].t = "link"}}

Ended == pc \in {"done", "error"}

\* The targets a profile's "symlinks" declares, and the source of the entry
\* that counts for a target (the last one written to the dict)
Targets(n) == {TargetOf(symlinks[n][i][1]) : i \in 1..Len(symlinks[n])}

DesiredSource(n, t) ==
  LET i == CHOOSE j \in 1..Len(symlinks[n]) :
             /\ TargetOf(symlinks[n][j][1]) = t
             /\ \A k \in (j + 1)..Len(symlinks[n]) : TargetOf(symlinks[n][k][1]) # t
  IN  SourceOf(n, symlinks[n][i][2])

\* C1: a second install run in a row, with the profiles as they were and
\* nothing else touching the filesystem, ends with the same symlinks, texts
\* included, as the first run ended with.
C1_Idempotent ==
  (run >= 2 /\ Ended) => Links(fs) = Links(history[run - 1].fs)

\* C2: a run that ends with a validation error of get_symlinks (missing
\* source, target that is the home directory, target outside it) has removed
\* nothing and created nothing: the filesystem is as the run found it.
C2_ValidationBeforeMutation ==
  (pc = "error" /\ err \in {"nosource", "ishome", "outside"}) => fs = fsStart

\* C3: after a completed install, a target that two active profiles declare
\* holds the link of the later one: the link is there whenever the target's
\* directory is, and its text is the later profile's source.
C3_OverridePrecedence ==
  pc = "done" =>
    \A i \in 1..Len(active) : \A j \in (i + 1)..Len(active) :
      \A t \in Targets(active[i]) \cap Targets(active[j]) :
        (\A k \in (j + 1)..Len(active) : t \notin Targets(active[k])) =>
          /\ LStat(fs, t).st # "absent"
          /\ LStat(fs, t).st = "ok" =>
               Node(fs, LStat(fs, t).loc) = Link(DesiredSource(active[j], t))

\* C3's case: both profiles were installed, they declare ~/a with different
\* sources, and ~/a is the later profile's link.
C3_Witness ==
  /\ pc = "done"
  /\ active = <<"A", "B">>
  /\ HomeP.comps \o <<"a">> \in DOMAIN fs
  /\ Abs(<<"h", "a">>) \in Targets("A") \cap Targets("B")
  /\ DesiredSource("A", Abs(<<"h", "a">>)).comps # DesiredSource("B", Abs(<<"h", "a">>)).comps
  /\ fs[<<"h", "a">>] = Link(DesiredSource("B", Abs(<<"h", "a">>)))

Within(loc) == IsPrefix(Home, loc) /\ loc # Home

OutsideHome(f) == [q \in {x \in DOMAIN f : ~IsPrefix(Home, x)} |-> f[q]]

\* C4: every target get_symlinks accepts lies inside the home directory tree
\* and is not the home directory, and an install changes nothing outside the
\* home directory.
C4_TargetsInsideHome ==
  /\ (pc = "destroy" /\ ei = 1) =>
       \A i \in 1..Len(new_symlinks) : Within(realpath(fs, new_symlinks[i][1]))
  /\ OutsideHome(fs) = OutsideHome(fsStart)

Registered == {n \in Range(Listing) : files0[n].syntax \in {"ok", "bad"}}

LoadedAll == Range(Names(profiles)) = Registered

\* C5: a profile whose profile.json does not parse is in no list of selected
\* profiles, its profile.json stays as it was, and it does not stop the
\* loading: it is registered like the others, the profile at which a load
\* stops is never one of its kind, and once the loading is over every
\* profile directory is registered.
C5_InvalidNeverActive ==
  /\ \A n \in Range(Listing) :
       files0[n].syntax = "bad" =>
         /\ n \notin Range(Names(ret))
         /\ n \notin Range(active)
         /\ files[n] = files0[n]
  /\ \A i \in 1..Len(Listing) :
       (files0[Listing[i]].syntax = "bad" /\ (li > i \/ spc # "load")) =>
         \/ Listing[i] \in Range(Names(profiles))
         \/ spc = "error" /\ li < i
  /\ (spc = "error" /\ ~LoadedAll) => files0[Listing[li]].syntax = "ok"
  /\ spc \in {"select", "shell", "installed"} => LoadedAll

\* C5's case: a profile that does not parse was loaded, another one was
\* selected, and the shell profile loop has saved the 'original' profile.
C5_Witness ==
  /\ spc = "installed"
  /\ files0["A"].syntax = "bad"
  /\ active = <<"B", "original">>
  /\ files["original"] # files0["original"]

Qualifies(profile) ==
  \/ profile.selector.none
  \/ \A i \in 1..Len(profile.selector.sels) : is_active(fs, profile.selector.sels[i]) = "T"

\* C6: the active list is the registered profiles that have no selector or
\* have every top-level selector active, in the order they were discovered
\* in.
C6_ActiveIsFilteredInOrder ==
  spc \in {"shell", "installed"} =>
    /\ active = Names(SelectSeq(profiles, Qualifies))
    /\ Names(profiles) = SelectSeq(Listing, LAMBDA n : n \in Registered)

\* C6's case: of three registered profiles the first and the last qualify,
\* the second has a selector that is not active.
C6_Witness ==
  /\ spc = "shell"
  /\ Len(profiles) = 3
  /\ active = <<"A", "original">>
  /\ ~profiles[1].selector.none
  /\ Len(profiles[2].selector.sels) = 2

\* C7: after an install that ended without an exception, every target of an
\* active profile's "copies" exists in the home directory and holds a copy
\* of the source.
C7_CopiesInstalled ==
  pc = "done" =>
    \A i \in 1..Len(active) : \A j \in 1..Len(copies[active[i]]) :
      /\ ~islink(fs, Join(HomeP, copies[active[i]][j][1]))
      /\ isfile(fs, Join(HomeP, copies[active[i]][j][1]))

\* The elements the active profiles give variable k as lists, resolved, in
\* the order of the profiles and of each list
RECURSIVE ListElements(_, _)
ListElements(k, work) ==
  IF work = <<>> THEN <<>>
  ELSE (IF Head(work)[2] = k /\ Head(work)[3].ty = "list"
        THEN [i \in 1..Len(Head(work)[3].l) |->
                ResolveElement(Head(work)[1], Head(work)[3].l[i])]
        ELSE <<>>)
       \o ListElements(k, Tail(work))

GivenAs(k, ty) == \E i \in 1..Len(Work) : Work[i][2] = k /\ Work[i][3].ty = ty

\* C8: a variable the active profiles give as lists is exported as its
\* segments joined by the separator: the ambient value first when the
\* variable is set, then every profile's elements in order.
C8_ListMerge ==
  epc = "done" =>
    \A k \in {"P", "F"} :
      GivenAs(k, "list") =>
        \E i \in 1..Len(out) :
          /\ out[i].var = k
          /\ out[i].val =
               JoinStr(<<":">>, (IF environ[k].set THEN <<environ[k].val>> ELSE <<>>)
                                \o ListElements(k, Work))

LinkDest(f, q) ==
  RealWalk(f, IF IsAbs(f[q].to) THEN <<>> ELSE Parent(q), f[q].to.comps, LinkFuel)

IsDesired(q) ==
  \E i \in 1..Len(active) : \E j \in 1..Len(symlinks[active[i]]) :
    /\ TargetOf(symlinks[active[i]][j][1]) = Abs(q)
    /\ fs[q].to = SourceOf(active[i], symlinks[active[i]][j][2])

\* C10: after a completed install every symlink directly in the home
\* directory that points below the profile directory is a desired entry of an
\* active profile.
C10_NoStaleLinks ==
  pc = "done" =>
    \A q \in listdir(fs, Home) :
      (fs[q].t = "link" /\ IsPrefix(ProfileDir.comps, LinkDest(fs, q))) => IsDesired(q)

\* A selector is well formed: its kind is known, its value has the type of
\* its kind, a "not" holds one selector, and so on down the tree.
RECURSIVE WellFormed(_, _)
WellFormed(k, v) ==
  CASE k \in {"file", "dir"} -> v.ty = "str"
    [] k = "host" -> v.ty \in {"str", "list"}
    [] k \in {"and", "or"} ->
         v.ty = "dict" /\ \A i \in 1..Len(v.d) : WellFormed(v.d[i][1], v.d[i][2])
    [] k = "not" ->
         v.ty = "dict" /\ Len(v.d) = 1 /\ WellFormed(v.d[1][1], v.d[1][2])
    [] OTHER -> FALSE

\* The boolean value of a well-formed selector in filesystem f
RECURSIVE Value(_, _, _)
Value(f, k, v) ==
  CASE k = "file" -> isfile(f, expand(v.p))
    [] k = "dir" -> isdir(f, expand(v.p))
    [] k = "host" -> HostMatches(IF v.ty = "str" THEN <<v.h>> ELSE v.l)
    [] k = "and" -> \A i \in 1..Len(v.d) : Value(f, v.d[i][1], v.d[i][2])
    [] k = "or" -> \E i \in 1..Len(v.d) : Value(f, v.d[i][1], v.d[i][2])
    [] k = "not" -> ~Value(f, v.d[1][1], v.d[1][2])
    [] OTHER -> FALSE

\* The top-level selectors of the loaded profiles
TopSelectors ==
  UNION {Range(profiles[i].selector.sels) : i \in 1..Len(profiles)}

\* C11: is_active() of a well-formed selector returns the boolean value of
\* its tree, "and" as all, "or" as some, "not" as the negation, whatever the
\* depth; and a profile whose selectors are all well formed is selected
\* exactly when all of them have the value true.
C11_BooleanSemantics ==
  /\ \A sel \in TopSelectors :
       WellFormed(sel.cls, sel.config) =>
         is_active(fs, sel) = Bool(Value(fs, sel.cls, sel.config))
  /\ spc \in {"shell", "installed"} =>
       \A i \in 1..Len(profiles) :
         (\A sel \in Range(profiles[i].selector.sels) : WellFormed(sel.cls, sel.config)) =>
           (profiles[i].name \in Range(active)
              <=> \A sel \in Range(profiles[i].selector.sels) :
                    Value(fs, sel.cls, sel.config))

\* C11's case: the profile was selected on a "not" of an "or" of two
\* selectors that are not active, next to a leaf that is active.
C11_Witness ==
  /\ spc = "shell"
  /\ active = <<"A">>
  /\ Len(profiles[1].selector.sels) = 2
  /\ profiles[1].selector.sels[1].cls = "not"
  /\ profiles[1].selector.sels[1].config.d[1][1] = "or"
  /\ Len(profiles[1].selector.sels[1].config.d[1][2].d) = 2
  /\ WellFormed("not", profiles[1].selector.sels[1].config)

EmptyAnd == [cls |-> "and", config |-> JDict(<<>>)]

EmptyOr == [cls |-> "or", config |-> JDict(<<>>)]

\* The selectors of a tree, the nested ones included
RECURSIVE Nested(_, _)
Nested(k, v) ==
  {[cls |-> k, config |-> v]}
    \cup (IF k \in {"and", "or", "not"} /\ v.ty = "dict"
          THEN UNION {Nested(v.d[i][1], v.d[i][2]) : i \in 1..Len(v.d)}
          ELSE {})

AllSelectors == UNION {Nested(sel.cls, sel.config) : sel \in TopSelectors}

\* C12: an "and" that holds no selector is active and an "or" that holds
\* none is not, neither raises; a profile whose one selector is such an "and"
\* is selected, one whose one selector is such an "or" is passed over, and
\* the run goes on.
C12_EmptyComposites ==
  /\ \A sel \in AllSelectors :
       /\ sel = EmptyAnd => is_active(fs, sel) = "T"
       /\ sel = EmptyOr => is_active(fs, sel) = "F"
  /\ \A i \in 1..Len(profiles) :
       profiles[i].selector.sels \in {<<EmptyAnd>>, <<EmptyOr>>} =>
         /\ spc # "error"
         /\ spc \in {"shell", "installed"} =>
              (profiles[i].name \in Range(active) <=> profiles[i].selector.sels = <<EmptyAnd>>)

\* C12's case: the profile whose selectors are {"and": {}} was selected.
C12_Witness ==
  /\ spc = "installed"
  /\ Len(profiles) = 1
  /\ profiles[1].selector.sels = <<EmptyAnd>>
  /\ active = <<"A">>

\* C13: a "not" whose object holds no selector or more than one is turned
\* down with the ValueError of a bad configuration whenever it is
\* evaluated, and no run gets through selection with such a "not" in a
\* loaded profile's tree.
C13_NotWrapsOne ==
  /\ \A sel \in AllSelectors :
       (sel.cls = "not" /\ sel.config.ty = "dict" /\ Len(sel.config.d) # 1) =>
         is_active(fs, sel) = "ValueError"
  /\ spc \in {"shell", "installed"} =>
       \A sel \in AllSelectors :
         ~(sel.cls = "not" /\ sel.config.ty = "dict" /\ Len(sel.config.d) # 1)

\* A selector of an unknown kind, or with a value of the wrong type for its
\* kind
Malformed(sel) ==
  CASE sel.cls \in {"file", "dir"} -> sel.config.ty # "str"
    [] sel.cls = "host" -> sel.config.ty \notin {"str", "list"}
    [] sel.cls \in {"and", "or", "not"} -> sel.config.ty # "dict"
    [] OTHER -> TRUE

\* C14: a profile whose selector tree holds, at whatever depth, a selector
\* of an unknown kind or a value of the wrong type ends the run with an
\* error, whatever the other selectors of the tree evaluate to: no run gets
\* through selection with such a tree loaded.
C14_MalformedTreeFails ==
  spc \in {"shell", "installed"} => \A sel \in AllSelectors : ~Malformed(sel)

\* Filesystem g is f without the locations of the set gone
Without(f, g, gone) ==
  /\ DOMAIN g = (DOMAIN f) \ gone
  /\ \A q \in DOMAIN g : g[q] = f[q]

\* What is at a path, the path itself and not what a link there points at
KindAt(f, p) == IF LStat(f, p).st = "ok" THEN Node(f, LStat(f, p).loc).t ELSE "none"

\* C15: one step of the destroy phase.  A target that is a symlink loses the
\* link and nothing else changes; a real directory goes, with all below it,
\* only when the source is a directory, a real file only when the source is
\* a file; on a mismatch or another file type the run ends with an error and
\* the filesystem is as it was.
C15_DestroyTypeRule ==
  [][pc = "destroy" =>
       LET target == new_symlinks[ei][1]
           source == new_symlinks[ei][2]
           loc == LStat(fs, target).loc
           kind == KindAt(fs, target)
       IN  CASE kind = "none" -> fs' = fs /\ pc' # "error"
             [] kind = "link" -> Without(fs, fs', {loc}) /\ pc' # "error"
             [] kind = "dir" ->
                  IF isdir(fs, source)
                  THEN Without(fs, fs', {q \in DOMAIN fs : IsPrefix(loc, q)}) /\ pc' # "error"
                  ELSE fs' = fs /\ pc' = "error"
             [] kind = "file" ->
                  IF isfile(fs, source)
                  THEN Without(fs, fs', {loc}) /\ pc' # "error"
                  ELSE fs' = fs /\ pc' = "error"
             [] OTHER -> fs' = fs /\ pc' = "error"]_vars

\* C15's case: the run ended at ~/a, a directory with a file in it whose
\* source is a file, and both are still there.
C15_Witness ==
  /\ pc = "error"
  /\ err = "type"
  /\ new_symlinks[ei][1] = Abs(<<"h", "a">>)
  /\ isfile(fs, new_symlinks[ei][2])
  /\ KindAt(fs, new_symlinks[ei][1]) = "dir"
  /\ <<"h", "a", "x">> \in DOMAIN fs

\* C16: one step of the create phase.  Whether os.symlink made the link or
\* failed, the run does not end: the next entry of the profile is next, and
\* after the last entry the next active profile; a link that can be made is
\* made, and a failure changes nothing.
C16_CreateFailureGoesOn ==
  [][pc = "create" =>
       LET dest == Join(HomeP, new_symlinks[ei][1])
           source == new_symlinks[ei][2]
       IN  /\ pc' # "error"
           /\ err' = err
           /\ ei < Len(new_symlinks) => (pc' = "create" /\ ei' = ei + 1 /\ pi' = pi)
           /\ (ei = Len(new_symlinks) /\ pi < Len(active)) =>
                (pc' = "get_symlinks" /\ pi' = pi + 1)
           /\ (ei = Len(new_symlinks) /\ pi = Len(active)) => pc' = "plugins"
           /\ IF CanSymlink(fs, dest)
              THEN /\ KindAt(fs', dest) = "link"
                   /\ Node(fs', LStat(fs', dest).loc) = Link(source)
                   /\ Without(fs', fs, {LStat(fs', dest).loc})
              ELSE fs' = fs]_vars

\* C16's case: ~/d is not there, so profile A's first link, ~/d/x, could not
\* be made; its second link, ~/b, was made and so was profile B's ~/a, and
\* the run ended normally.
C16_Witness ==
  /\ pc = "done"
  /\ active = <<"A", "B">>
  /\ Len(symlinks["A"]) = 2
  /\ symlinks["A"][1][1] = Knested
  /\ symlinks["A"][2][1] = Kb
  /\ <<"h", "d">> \notin DOMAIN fs
  /\ KindAt(fs, Abs(<<"h", "b">>)) = "link"
  /\ symlinks["B"][1][1] = Ka
  /\ KindAt(fs, Abs(<<"h", "a">>)) = "link"

\* What a filesystem holds below the profile directory
Store(f) == [q \in {x \in DOMAIN f : IsPrefix(ProfileDir.comps, x) /\ x # ProfileDir.comps} |-> f[q]]

\* The places the active profiles' "symlinks" name
DesiredPlaces ==
  UNION {{LStat(fsStart, TargetOf(symlinks[active[i]][j][1])).loc :
            j \in 1..Len(symlinks[active[i]])} : i \in 1..Len(active)}

\* C17: an install leaves everything below the profile directory as the run
\* found it, and whatever the run has removed was a symlink directly in the
\* home directory or lay at a desired target.
C17_StoreUntouched ==
  /\ Store(fs) = Store(fsStart)
  /\ \A q \in (DOMAIN fsStart) \ (DOMAIN fs) :
       \/ q \in listdir(fsStart, Home) /\ fsStart[q].t = "link"
       \/ \E t \in DesiredPlaces : IsPrefix(t, q)

====
